---- MODULE Spec2Model ----
(***************************************************************************)
(* The extraction - cleaning - feature-engineering pipeline of the         *)
(* Eventbrite Dublin events repository (src/src/data_cleaning.py and       *)
(* src/src/feature_engineering.py) as a state machine.                     *)
(*                                                                         *)
(* Representation.  A Python str is a sequence of one-character strings,   *)
(* so that lower(), strip(), join() and the regular expressions are        *)
(* computed character by character.  A Python value is a tagged record     *)
(* [t, v]: none, nan (float NaN / NaT), int, num (a float, held in         *)
(* hundredths), str, list, dict, and reprstr, a str whose text is the      *)
(* Python literal of value v (what ast.literal_eval turns back into v).    *)
(* A data frame is [cols, rows]: the set of column names and the sequence  *)
(* of rows, each row a function from cols to values.                       *)
(*                                                                         *)
(* The run hands the frame clean_events returned to engineer_features as   *)
(* it is; the CSV file the two main() functions pass it through is not     *)
(* part of the model.                                                      *)
(***************************************************************************)
EXTENDS Integers, Sequences, FiniteSets, TLC

VARIABLES
    stage,      \* how far the pipeline has run: idle, loaded, normalized, ...
    events,     \* the raw records handed to the pipeline (load_events_json)
    df,         \* the current data frame
    dfClean,    \* the data frame the first clean_events returned
    exc,        \* the exception that ended the run, "none" otherwise
    call,       \* the last direct call of a helper function, with its result
    scrape      \* the run of scrape_all and main of data_acquisition.py

vars == <<stage, events, df, dfClean, exc, call, scrape>>

---------------------------------------------------------------------------
(* Characters and strings                                                  *)

UpperLetters == <<"A", "B", "C", "D", "E", "F", "G", "H", "I", "J", "K", "L", "M", "N", "O", "P", "Q", "R", "S", "T", "U", "V", "W", "X", "Y", "Z">>
LowerLetters == <<"a", "b", "c", "d", "e", "f", "g", "h", "i", "j", "k", "l", "m", "n", "o", "p", "q", "r", "s", "t", "u", "v", "w", "x", "y", "z">>
Digits == <<"0", "1", "2", "3", "4", "5", "6", "7", "8", "9">>

\* TLC keeps a function constructor unevaluated and evaluates it again at every
\* use; Tuple and Row turn a sequence and a row into their explicit values.
Tuple(f) == <<>> \o f
Row(f) == f @@ <<>>

Range(s) == {s[i] : i \in 1..Len(s)}

IndexOf(c, s) == CHOOSE i \in 1..Len(s) : s[i] = c

IsUpperChar(c) == c \in Range(UpperLetters)
IsLowerChar(c) == c \in Range(LowerLetters)
IsDigitChar(c) == c \in Range(Digits)
DigitVal(c) == IndexOf(c, Digits) - 1

\* str.lower() and str.upper() on one character
LowerChar(c) == IF IsUpperChar(c) THEN LowerLetters[IndexOf(c, UpperLetters)] ELSE c
UpperChar(c) == IF IsLowerChar(c) THEN UpperLetters[IndexOf(c, LowerLetters)] ELSE c

StrLower(s) == Tuple([i \in 1..Len(s) |-> LowerChar(s[i])])
StrUpper(s) == Tuple([i \in 1..Len(s) |-> UpperChar(s[i])])

\* \s of the re module, and the characters str.strip() removes
IsSpaceChar(c) == c \in {" ", "\t", "\n", "\r"}
\* \w of the re module; \b is a change between \w and not-\w
IsWordChar(c) == IsUpperChar(c) \/ IsLowerChar(c) \/ IsDigitChar(c) \/ c = "_"

\* str.strip(): drop the leading and trailing whitespace
Greatest(S) == CHOOSE i \in S : \A j \in S : j <= i
Smallest(S) == CHOOSE i \in S : \A j \in S : i <= j
StripTo(s, keep) == IF keep = {} THEN <<>> ELSE SubSeq(s, Smallest(keep), Greatest(keep))
StrStrip(s) == StripTo(s, {i \in 1..Len(s) : ~IsSpaceChar(s[i])})

\* sep.join(parts)
RECURSIVE StrJoin(_, _)
StrJoin(sep, parts) ==
    IF Len(parts) = 0 THEN <<>>
    ELSE IF Len(parts) = 1 THEN parts[1]
    ELSE parts[1] \o sep \o StrJoin(sep, Tail(parts))

\* the decimal digits of a natural number, str(n)
RECURSIVE NatToStr(_)
NatToStr(n) == IF n < 10 THEN <<Digits[n + 1]>>
               ELSE NatToStr(n \div 10) \o <<Digits[(n % 10) + 1]>>

AllDigits(s) == Len(s) > 0 /\ \A i \in 1..Len(s) : IsDigitChar(s[i])

\* int(s) of a string of decimal digits
RECURSIVE StrToNat(_)
StrToNat(s) == IF Len(s) = 0 THEN 0
               ELSE 10 * StrToNat(SubSeq(s, 1, Len(s) - 1)) + DigitVal(s[Len(s)])

\* whether s holds w at position i
HasAt(s, i, w) == i >= 1 /\ i + Len(w) - 1 <= Len(s) /\ SubSeq(s, i, i + Len(w) - 1) = w


---------------------------------------------------------------------------
(* Python values                                                           *)

PyNone == [t |-> "none", v |-> 0]
NaN == [t |-> "nan", v |-> 0]
PyInt(n) == [t |-> "int", v |-> n]
Num(h) == [t |-> "num", v |-> h]
Str(s) == [t |-> "str", v |-> s]
List(xs) == [t |-> "list", v |-> xs]
Dict(kvs) == [t |-> "dict", v |-> kvs]
ReprStr(x) == [t |-> "reprstr", v |-> x]
KV(k, x) == [k |-> k, x |-> x]

\* isinstance(x, str), isinstance(x, list), isinstance(x, dict)
IsStr(x) == x.t \in {"str", "reprstr"}
IsList(x) == x.t = "list"
IsDict(x) == x.t = "dict"

\* repr(x): the Python literal of a value
RECURSIVE Repr(_)
Repr(x) ==
    CASE x.t = "none" -> <<"N", "o", "n", "e">>
      [] x.t = "nan" -> <<"n", "a", "n">>
      [] x.t = "int" -> (IF x.v < 0 THEN <<"-">> \o NatToStr(0 - x.v) ELSE NatToStr(x.v))
      [] x.t = "str" -> <<"'">> \o x.v \o <<"'">>
      [] x.t = "list" ->
            <<"[">> \o StrJoin(<<",", " ">>, Tuple([i \in 1..Len(x.v) |-> Repr(x.v[i])])) \o <<"]">>
      [] x.t = "dict" ->
            <<"{">> \o StrJoin(<<",", " ">>, Tuple([i \in 1..Len(x.v) |->
                        <<"'">> \o x.v[i].k \o <<"'">> \o <<":", " ">> \o Repr(x.v[i].x)]))
                   \o <<"}">>
      [] OTHER -> <<"?">>

\* the characters of a str value
Chars(x) == IF x.t = "str" THEN x.v ELSE Repr(x.v)

\* str(x)
PyStr(x) == IF IsStr(x) THEN Chars(x) ELSE Repr(x)

\* bool(x)
Truthy(x) ==
    CASE x.t = "none" -> FALSE
      [] x.t = "int" -> x.v # 0
      [] x.t = "num" -> x.v # 0
      [] x.t = "str" -> Len(x.v) > 0
      [] x.t = "list" -> Len(x.v) > 0
      [] x.t = "dict" -> Len(x.v) > 0
      [] OTHER -> TRUE

\* value equality (Python ==) of two values
PyEq(a, b) == a.t = b.t /\ a.v = b.v

\* dict.get(key): the value under key, None when the key is absent
DictGet(d, key) ==
    IF \A i \in 1..Len(d.v) : d.v[i].k # key THEN PyNone
    ELSE d.v[Smallest({i \in 1..Len(d.v) : d.v[i].k = key})].x

\* The outcome of a call: the value it returns, or the exception it raises.
Ret(x) == [exc |-> "none", val |-> x]
Raise(e) == [exc |-> e, val |-> PyNone]

\* ast.literal_eval(s) of a str: the value of the literal the text spells;
\* text that spells no literal raises.
LiteralEval(x) ==
    IF x.t = "reprstr" THEN Ret(x.v)
    ELSE IF AllDigits(x.v) THEN Ret(PyInt(StrToNat(x.v)))
    ELSE Raise("ValueError")

\* `ast.literal_eval(row) if isinstance(row, str) else row` inside try/except:
\* ok is FALSE where the except branch is taken.
EvalField(row) ==
    IF IsStr(row) THEN [ok |-> LiteralEval(row).exc = "none", data |-> LiteralEval(row).val]
    ELSE [ok |-> TRUE, data |-> row]

---------------------------------------------------------------------------
(* Field extractors of data_cleaning.py                                    *)

\* the for loop of extract_from_locations: the name of the first dict item
\* whose type equals target_type
FirstOfType(items, hits) ==
    IF hits = {} THEN PyNone ELSE DictGet(items[Smallest(hits)], <<"n", "a", "m", "e">>)

LocationName(e, target_type) ==
    IF ~e.ok THEN PyNone
    ELSE IF ~IsList(e.data) THEN PyNone
    ELSE FirstOfType(e.data.v,
                     {i \in 1..Len(e.data.v) :
                         /\ IsDict(e.data.v[i])
                         /\ PyEq(DictGet(e.data.v[i], <<"t", "y", "p", "e">>), Str(target_type))})

extract_from_locations(row, target_type) == Ret(LocationName(EvalField(row), target_type))

\* a variant: the word is searched for without regard to case
HasDublinWord_AnyCase(s) ==
    \E i \in 1..Len(s) :
        /\ HasAt(StrLower(s), i, <<"d", "u", "b", "l", "i", "n">>)
        /\ (i = 1 \/ ~IsWordChar(s[i - 1]))
        /\ (i + 6 > Len(s) \/ ~IsWordChar(s[i + 6]))

\* re.search(r"\bDublin\b", s) finds a match
HasDublinWord(s) ==
    \E i \in 1..Len(s) :
        /\ HasAt(s, i, <<"D", "u", "b", "l", "i", "n">>)
        /\ (i = 1 \/ ~IsWordChar(s[i - 1]))
        /\ (i + 6 > Len(s) \/ ~IsWordChar(s[i + 6]))

AddressParts(e) ==
    IF ~e.ok THEN <<PyNone, PyNone, PyNone>>
    ELSE IF ~IsList(e.data) \/ Len(e.data.v) < 2 THEN <<PyNone, PyNone, PyNone>>
    ELSE <<e.data.v[1], e.data.v[2],
           IF HasDublinWord(PyStr(e.data.v[2])) THEN Str(<<"D", "u", "b", "l", "i", "n">>) ELSE PyNone>>

parse_address(row) == Ret(AddressParts(EvalField(row)))

\* the names extract_tags collects: the truthy display_name of every dict item
TagName(item) == IF IsDict(item) THEN DictGet(item, <<"d", "i", "s", "p", "l", "a", "y", "_", "n", "a", "m", "e">>) ELSE PyNone

RECURSIVE TagNames(_)
TagNames(items) ==
    IF Len(items) = 0 THEN <<>>
    ELSE (IF Truthy(TagName(items[1])) THEN <<TagName(items[1])>> ELSE <<>>)
             \o TagNames(Tail(items))

\* names and ", ".join(names); join accepts str items only
JoinTags(names) ==
    IF \E i \in 1..Len(names) : ~IsStr(names[i])
    THEN Raise("TypeError")
    ELSE Ret(<<List(names),
               Str(StrJoin(<<",", " ">>, Tuple([i \in 1..Len(names) |-> Chars(names[i])])))>>)

TagsOf(e) ==
    IF ~e.ok THEN Ret(<<List(<<>>), Str(<<>>)>>)
    ELSE IF ~IsList(e.data) THEN Ret(<<List(<<>>), Str(<<>>)>>)
    ELSE JoinTags(TagNames(e.data.v))

extract_tags(row) == TagsOf(EvalField(row))

---------------------------------------------------------------------------
(* Helpers of feature_engineering.py                                       *)

\* a float is held in hundredths: 15.00 is 1500
PriceScale == 100

\* a variant: a missing price is taken as 0 before it is labelled
categorize_price_NullAsZero(x) ==
    IF x.t = "nan" THEN Str(<<"f", "r", "e", "e">>)
    ELSE IF x.v = 0 THEN Str(<<"f", "r", "e", "e">>)
    ELSE IF x.v < 10 * PriceScale THEN Str(<<"l", "o", "w">>)
    ELSE IF x.v < 30 * PriceScale THEN Str(<<"m", "e", "d", "i", "u", "m">>)
    ELSE Str(<<"h", "i", "g", "h">>)

\* every comparison with NaN is false, so NaN falls to the else branch
categorize_price(x) ==
    IF x.t = "nan" THEN Str(<<"h", "i", "g", "h">>)
    ELSE IF x.v = 0 THEN Str(<<"f", "r", "e", "e">>)
    ELSE IF x.v < 10 * PriceScale THEN Str(<<"l", "o", "w">>)
    ELSE IF x.v < 30 * PriceScale THEN Str(<<"m", "e", "d", "i", "u", "m">>)
    ELSE Str(<<"h", "i", "g", "h">>)

\* EIRCODE_PATTERN = \b([A-Z]\d{2})\s?([A-Z0-9]{4})\b matches s at i; the
\* unique identifier then starts at EircodeIdAt(s, i)
EircodeIdAt(s, i) == IF i + 3 <= Len(s) /\ IsSpaceChar(s[i + 3]) THEN i + 4 ELSE i + 3

EircodeEndsAt(s, u) ==
    /\ u + 3 <= Len(s)
    /\ \A j \in u..(u + 3) : (IsUpperChar(s[j]) \/ IsDigitChar(s[j]))
    /\ (u + 3 = Len(s) \/ ~IsWordChar(s[u + 4]))

EircodeAt(s, i) ==
    /\ i + 2 <= Len(s)
    /\ (i = 1 \/ ~IsWordChar(s[i - 1]))
    /\ IsUpperChar(s[i]) /\ IsDigitChar(s[i + 1]) /\ IsDigitChar(s[i + 2])
    /\ EircodeEndsAt(s, EircodeIdAt(s, i))

\* the groups of the match at i: (full, routing key, unique identifier)
EircodeGroups(routing_key, unique_id) ==
    <<Str(routing_key \o <<" ">> \o unique_id), Str(routing_key), Str(unique_id)>>

EircodeMatch(s, hits) ==
    IF hits = {} THEN <<PyNone, PyNone, PyNone>>
    ELSE EircodeGroups(SubSeq(s, Smallest(hits), Smallest(hits) + 2),
                       SubSeq(s, EircodeIdAt(s, Smallest(hits)), EircodeIdAt(s, Smallest(hits)) + 3))

EircodeSearch(s) == EircodeMatch(s, {i \in 1..Len(s) : EircodeAt(s, i)})

extract_eircode(address) ==
    IF ~IsStr(address) THEN Ret(<<PyNone, PyNone, PyNone>>)
    ELSE Ret(EircodeSearch(StrUpper(Chars(address))))

\* POSTAL_DISTRICT_PATTERN = DUBLIN\s+(\d{1,2}), IGNORECASE, matches s at i;
\* the digits then start at DistrictDigitsAt(s, i)
DistrictDigitsAt(s, i) ==
    Smallest({j \in (i + 6)..(Len(s) + 1) : j > Len(s) \/ ~IsSpaceChar(s[j])})

DistrictAt(s, i) ==
    /\ HasAt(StrLower(s), i, <<"d", "u", "b", "l", "i", "n">>)
    /\ DistrictDigitsAt(s, i) > i + 6
    /\ DistrictDigitsAt(s, i) <= Len(s)
    /\ IsDigitChar(s[DistrictDigitsAt(s, i)])

\* int() of the one or two digits that start at d
DistrictDigits(s, d) ==
    PyInt(StrToNat(SubSeq(s, d, IF d + 1 <= Len(s) /\ IsDigitChar(s[d + 1]) THEN d + 1 ELSE d)))

DistrictMatch(s, hits) ==
    IF hits = {} THEN PyNone ELSE DistrictDigits(s, DistrictDigitsAt(s, Smallest(hits)))

DistrictSearch(s) == DistrictMatch(s, {i \in 1..Len(s) : DistrictAt(s, i)})

extract_dublin_postal_district(address) ==
    IF ~IsStr(address) THEN Ret(PyNone) ELSE Ret(DistrictSearch(Chars(address)))

---------------------------------------------------------------------------
(* Numbers and timestamps                                                  *)

\* pd.to_numeric(errors="coerce") of one cell: a float in hundredths, NaN for
\* what is no number.  Text is read as [-]digits[.digit[digit]].
Hundredths(frac) ==
    IF Len(frac) = 0 THEN 0
    ELSE IF Len(frac) = 1 THEN 10 * StrToNat(frac) ELSE StrToNat(frac)

NumberParts(whole, frac, dotted, sign) ==
    IF AllDigits(whole) /\ (~dotted \/ (Len(frac) \in {1, 2} /\ AllDigits(frac)))
    THEN Num(sign * (PriceScale * StrToNat(whole) + Hundredths(frac)))
    ELSE NaN

NumberSplit(body, dots, sign) ==
    IF dots = {} THEN NumberParts(body, <<>>, FALSE, sign)
    ELSE NumberParts(SubSeq(body, 1, Smallest(dots) - 1),
                     SubSeq(body, Smallest(dots) + 1, Len(body)), TRUE, sign)

UnsignedNumber(body, sign) == NumberSplit(body, {i \in 1..Len(body) : body[i] = "."}, sign)

NumberText(s) ==
    IF Len(s) > 0 /\ s[1] = "-" THEN UnsignedNumber(Tail(s), -1) ELSE UnsignedNumber(s, 1)

ToNumeric(x) ==
    CASE x.t = "num" -> x
      [] x.t = "int" -> Num(PriceScale * x.v)
      [] x.t = "str" -> NumberText(StrStrip(x.v))
      [] OTHER -> NaN

\* a timestamp is held as seconds since 1970-01-01 00:00:00
Dt(secs) == [t |-> "dt", v |-> secs]

DaysInMonth(y, m) ==
    IF m = 2 THEN (IF (y % 4 = 0 /\ y % 100 # 0) \/ y % 400 = 0 THEN 29 ELSE 28)
    ELSE IF m \in {4, 6, 9, 11} THEN 30 ELSE 31

\* days from 1970-01-01 to the civil date y-m-d; yy counts the year from March
DaysFromMarch(yy, mp, d) ==
    (yy \div 400) * 146097 + (yy % 400) * 365 + (yy % 400) \div 4 - (yy % 400) \div 100
        + (153 * mp + 2) \div 5 + d - 1 - 719468

DaysFromCivil(y, m, d) == DaysFromMarch(IF m <= 2 THEN y - 1 ELSE y, (m + 9) % 12, d)

\* the month of the civil date that lies z days after 1970-01-01
MonthOfDays(z) ==
    CHOOSE m \in 1..12 : \E y \in 1970..2099 :
        /\ DaysFromCivil(y, m, 1) <= z
        /\ z < DaysFromCivil(y, m, 1) + DaysInMonth(y, m)

DayNames == <<<<"M", "o", "n", "d", "a", "y">>, <<"T", "u", "e", "s", "d", "a", "y">>, <<"W", "e", "d", "n", "e", "s", "d", "a", "y">>, <<"T", "h", "u", "r", "s", "d", "a", "y">>, <<"F", "r", "i", "d", "a", "y">>,
              <<"S", "a", "t", "u", "r", "d", "a", "y">>, <<"S", "u", "n", "d", "a", "y">>>>

\* pd.to_datetime(errors="coerce") of text: "YYYY-MM-DD HH:MM:SS", the date
\* and the time split by a space or a T, a closing Z allowed; NaT otherwise
DatetimeShape(body) ==
    /\ Len(body) = 19
    /\ body[5] = "-" /\ body[8] = "-"
    /\ body[11] \in {" ", "T"}
    /\ body[14] = ":" /\ body[17] = ":"
    /\ \A i \in {1, 2, 3, 4, 6, 7, 9, 10, 12, 13, 15, 16, 18, 19} : IsDigitChar(body[i])

DatetimeOf(y, m, d, hh, mi, ss) ==
    IF y >= 1970 /\ m \in 1..12 /\ d >= 1 /\ d <= DaysInMonth(y, m)
          /\ hh < 24 /\ mi < 60 /\ ss < 60
    THEN Dt(86400 * DaysFromCivil(y, m, d) + 3600 * hh + 60 * mi + ss)
    ELSE NaN

DatetimeBody(body) ==
    IF DatetimeShape(body)
    THEN DatetimeOf(StrToNat(SubSeq(body, 1, 4)), StrToNat(SubSeq(body, 6, 7)),
                    StrToNat(SubSeq(body, 9, 10)), StrToNat(SubSeq(body, 12, 13)),
                    StrToNat(SubSeq(body, 15, 16)), StrToNat(SubSeq(body, 18, 19)))
    ELSE NaN

ToDatetime(x) ==
    CASE x.t = "dt" -> x
      [] x.t = "str" -> DatetimeBody(IF Len(x.v) = 20 /\ x.v[20] = "Z" THEN SubSeq(x.v, 1, 19) ELSE x.v)
      [] OTHER -> NaN

\* Series + " " + Series on object columns: a null operand gives a null
ConcatDateTime(a, b) ==
    IF a.t = "str" /\ b.t = "str" THEN Str(a.v \o <<" ">> \o b.v) ELSE NaN

---------------------------------------------------------------------------
(* Data frames                                                             *)

\* pandas isna(): None, NaN and NaT
IsNa(x) == x.t \in {"none", "nan"}

\* Series.fillna(value) on one cell
FillNa(x, value) == IF IsNa(x) THEN value ELSE x

Restrict(r, cs) == Row([c \in cs |-> r[c]])

DropCols(d, cs) ==
    [cols |-> d.cols \ cs,
     rows |-> Tuple([i \in 1..Len(d.rows) |-> Restrict(d.rows[i], d.cols \ cs)])]

\* df[c] = vals
SetCol(d, c, vals) ==
    [cols |-> d.cols \cup {c},
     rows |-> Tuple([i \in 1..Len(d.rows) |->
                 Row([k \in d.cols \cup {c} |-> IF k = c THEN vals[i] ELSE d.rows[i][k]])])]

\* pd.json_normalize(events): one column per leaf path seen in any record,
\* NaN where a record lacks the path
normalize_events(evs) ==
    [cols |-> UNION {DOMAIN evs[i] : i \in 1..Len(evs)},
     rows |-> Tuple([i \in 1..Len(evs) |->
                 Row([c \in UNION {DOMAIN evs[j] : j \in 1..Len(evs)} |->
                     IF c \in DOMAIN evs[i] THEN evs[i][c] ELSE NaN])])]

\* the columns whose null count equals the row count (every column of a frame
\* without rows)
drop_fully_null_columns(d) ==
    DropCols(d, {c \in d.cols :
                    Cardinality({i \in 1..Len(d.rows) : IsNa(d.rows[i][c])}) = Len(d.rows)})

safe_drop(d, cs) == DropCols(d, cs \cap d.cols)

AddrCol == "primary_venue.address.localized_multi_line_address_display"
PriceCol == "ticket_availability.minimum_ticket_price.major_value"

\* lower(), "." -> "_", " " -> "_" on the column names the pipeline meets
StdName(c) ==
    CASE c = AddrCol -> "primary_venue_address_localized_multi_line_address_display"
      [] c = PriceCol -> "ticket_availability_minimum_ticket_price_major_value"
      [] c = "primary_venue.name" -> "primary_venue_name"
      [] c = "urgency_signals.messages" -> "urgency_signals_messages"
      [] c = "open_discount.end_date" -> "open_discount_end_date"
      [] c = "image.url" -> "image_url"
      [] OTHER -> c

standardize_column_names(d) ==
    [cols |-> {StdName(c) : c \in d.cols},
     rows |-> Tuple([i \in 1..Len(d.rows) |->
                 Row([k \in {StdName(c) : c \in d.cols} |->
                     d.rows[i][CHOOSE c \in d.cols : StdName(c) = k]])])]

\* df[c] = df[c].fillna(value) where the column exists
FillCol(d, c, value) ==
    IF c \in d.cols
    THEN SetCol(d, c, Tuple([i \in 1..Len(d.rows) |-> FillNa(d.rows[i][c], value)]))
    ELSE d

\* drop_duplicates compares nulls as equal
SameId(a, b) == (IsNa(a) /\ IsNa(b)) \/ PyEq(a, b)

RECURSIVE KeepFirst(_, _)
KeepFirst(rows, seen) ==
    IF Len(rows) = 0 THEN <<>>
    ELSE IF \E j \in 1..Len(seen) : SameId(seen[j], rows[1]["id"])
         THEN KeepFirst(Tail(rows), seen)
         ELSE <<rows[1]>> \o KeepFirst(Tail(rows), Append(seen, rows[1]["id"]))

\* a variant: keep="last"
RECURSIVE KeepLast(_, _)
KeepLast(rows, seen) ==
    IF Len(rows) = 0 THEN <<>>
    ELSE IF \E j \in 1..Len(seen) : SameId(seen[j], rows[Len(rows)]["id"])
         THEN KeepLast(SubSeq(rows, 1, Len(rows) - 1), seen)
         ELSE KeepLast(SubSeq(rows, 1, Len(rows) - 1), Append(seen, rows[Len(rows)]["id"]))
                  \o <<rows[Len(rows)]>>

drop_duplicates_KeepLast(d) ==
    IF Len(d.rows) = 0 \/ d.cols = {} THEN [exc |-> "none", df |-> d]
    ELSE IF "id" \notin d.cols THEN [exc |-> "KeyError", df |-> d]
    ELSE [exc |-> "none", df |-> [cols |-> d.cols, rows |-> KeepLast(d.rows, <<>>)]]

\* df.drop_duplicates(subset="id", keep="first"): an empty frame is returned
\* as it is, a frame without the id column raises KeyError
drop_duplicates(d) ==
    IF Len(d.rows) = 0 \/ d.cols = {} THEN [exc |-> "none", df |-> d]
    ELSE IF "id" \notin d.cols THEN [exc |-> "KeyError", df |-> d]
    ELSE [exc |-> "none", df |-> [cols |-> d.cols, rows |-> KeepFirst(d.rows, <<>>)]]

---------------------------------------------------------------------------
(* Cleaning stage: clean_events                                            *)

NoisyCols == {"urgency_signals.messages", "urgency_signals.categories",
              "public_collections.creator_collections.collections"}

SalesCols == {"event_sales_status.start_sales_date.timezone",
              "event_sales_status.start_sales_date.local",
              "event_sales_status.start_sales_date.utc",
              "event_sales_status.end_sales_date.timezone",
              "event_sales_status.end_sales_date.local",
              "event_sales_status.end_sales_date.utc",
              "open_discount.end_date"}

NestedCols == {"locations", "tags", AddrCol}

\* step 3
CleanLocations(d) ==
    IF "locations" \in d.cols
    THEN SetCol(SetCol(d, "city",
                       Tuple([i \in 1..Len(d.rows) |->
                           extract_from_locations(d.rows[i]["locations"], <<"l", "o", "c", "a", "l", "i", "t", "y">>).val])),
                "neighbourhood",
                Tuple([i \in 1..Len(d.rows) |->
                    extract_from_locations(d.rows[i]["locations"], <<"n", "e", "i", "g", "h", "b", "o", "u", "r", "h", "o", "o", "d">>).val]))
    ELSE d

\* step 4
AddressColumns(d, parts) ==
    SetCol(SetCol(SetCol(d, "venue_street", Tuple([i \in 1..Len(d.rows) |-> parts[i][1]])),
                  "venue_line2", Tuple([i \in 1..Len(d.rows) |-> parts[i][2]])),
           "venue_city", Tuple([i \in 1..Len(d.rows) |-> parts[i][3]]))

CleanAddress(d) ==
    IF AddrCol \in d.cols
    THEN AddressColumns(d, Tuple([i \in 1..Len(d.rows) |-> parse_address(d.rows[i][AddrCol]).val]))
    ELSE d

\* step 5; extract_tags may raise
TagColumns(d, outs) ==
    IF \E i \in 1..Len(outs) : outs[i].exc # "none"
    THEN [exc |-> "TypeError", df |-> d]
    ELSE [exc |-> "none",
          df |-> SetCol(SetCol(d, "tags_list", Tuple([i \in 1..Len(d.rows) |-> outs[i].val[1]])),
                        "tags_string", Tuple([i \in 1..Len(d.rows) |-> outs[i].val[2]]))]

CleanTags(d) ==
    IF "tags" \in d.cols
    THEN TagColumns(d, Tuple([i \in 1..Len(d.rows) |-> extract_tags(d.rows[i]["tags"])]))
    ELSE [exc |-> "none", df |-> d]

\* step 8: to_utc_naive_datetime on the published column
CleanPublished(d) ==
    IF "published" \in d.cols
    THEN SetCol(d, "published",
                Tuple([i \in 1..Len(d.rows) |-> ToDatetime(d.rows[i]["published"])]))
    ELSE d

\* step 10
CleanFill(d) ==
    FillCol(FillCol(FillCol(FillCol(d, "summary", Str(<<>>)),
                            "venue_city", Str(<<"u", "n", "k", "n", "o", "w", "n">>)),
                    "city", Str(<<"u", "n", "k", "n", "o", "w", "n">>)),
            "neighbourhood", Str(<<"u", "n", "k", "n", "o", "w", "n">>))

\* steps 6 to 11 after step 5 returned t5; an exception of step 5 ends the call
CleanFinish(t5) ==
    IF t5.exc # "none" THEN t5 ELSE drop_duplicates(CleanFill(standardize_column_names(CleanPublished(
             safe_drop(safe_drop(t5.df, SalesCols), NestedCols)))))

clean_events(d) ==
    CleanFinish(CleanTags(CleanAddress(CleanLocations(
        safe_drop(drop_fully_null_columns(d), NoisyCols)))))

---------------------------------------------------------------------------
(* Feature engineering stage: engineer_features                            *)

PriceStd == "ticket_availability_minimum_ticket_price_major_value"

\* the items iterating over a parsed tags_list cell yields
IterItems(data) ==
    CASE data.t = "list" -> Ret(data.v)
      [] data.t = "dict" -> Ret([i \in 1..Len(data.v) |-> Str(data.v[i].k)])
      [] data.t = "str" -> Ret([i \in 1..Len(data.v) |-> Str(<<data.v[i]>>)])
      [] OTHER -> Raise("TypeError")

\* str(tag).lower().strip() of every item
NormalizeItems(items) ==
    IF items.exc # "none" THEN items
    ELSE Ret(Tuple([i \in 1..Len(items.val) |-> StrStrip(StrLower(PyStr(items.val[i])))]))

\* a non-str cell is used as it is when a list and is [] otherwise
safe_json_parse_and_normalize(x) ==
    NormalizeItems(IterItems(IF IsStr(x) THEN (IF LiteralEval(x).exc = "none" THEN LiteralEval(x).val
                                   ELSE List(<<>>))
                             ELSE (IF IsList(x) THEN x ELSE List(<<>>))))

TagCategories == <<"tag_music_event", "tag_nightlife_social", "tag_dating_singles", "tag_education_business", "tag_arts_culture", "tag_wellness_health", "tag_food_drink", "tag_holiday", "tag_hobbies_lifestyle">>

\* aggregation_map: the keyword list of each category
aggregation_map(cat) ==
    CASE cat = "tag_music_event" -> <<
            <<"m", "u", "s", "i", "c">>,
            <<"c", "o", "n", "c", "e", "r", "t", " ", "o", "r", " ", "p", "e", "r", "f", "o", "r", "m", "a", "n", "c", "e">>,
            <<"l", "i", "v", "e", "m", "u", "s", "i", "c">>,
            <<"c", "o", "n", "c", "e", "r", "t">>,
            <<"m", "u", "s", "i", "c", "a", "l">>,
            <<"e", "d", "m", " ", "/", " ", "e", "l", "e", "c", "t", "r", "o", "n", "i", "c">>,
            <<"t", "e", "c", "h", "n", "o">>,
            <<"r", "o", "c", "k">>,
            <<"p", "o", "p">>,
            <<"i", "n", "d", "i", "e">>,
            <<"f", "o", "l", "k">>,
            <<"c", "l", "a", "s", "s", "i", "c", "a", "l">>,
            <<"b", "l", "u", "e", "s", " ", "&", " ", "j", "a", "z", "z">>,
            <<"l", "a", "t", "i", "n">>,
            <<"h", "o", "u", "s", "e">>,
            <<"a", "l", "t", "e", "r", "n", "a", "t", "i", "v", "e">>,
            <<"d", "j">>,
            <<"t", "r", "i", "b", "u", "t", "e">>,
            <<"l", "i", "v", "e", "m", "u", "s", "i", "c", "v", "e", "n", "u", "e">>,
            <<"l", "i", "v", "e", "e", "v", "e", "n", "t">>,
            <<"c", "h", "o", "i", "r">>,
            <<"i", "r", "i", "s", "h", "m", "u", "s", "i", "c">>,
            <<"l", "i", "v", "e">>>>
      [] cat = "tag_nightlife_social" -> <<
            <<"p", "a", "r", "t", "y", " ", "o", "r", " ", "s", "o", "c", "i", "a", "l", " ", "g", "a", "t", "h", "e", "r", "i", "n", "g">>,
            <<"p", "a", "r", "t", "y">>,
            <<"n", "i", "g", "h", "t", "l", "i", "f", "e">>,
            <<"n", "i", "g", "h", "t", "c", "l", "u", "b">>,
            <<"c", "e", "l", "e", "b", "r", "a", "t", "i", "o", "n">>,
            <<"f", "u", "n">>,
            <<"d", "a", "n", "c", "e">>,
            <<"d", "i", "n", "n", "e", "r", " ", "o", "r", " ", "g", "a", "l", "a">>,
            <<"s", "o", "c", "i", "a", "l">>>>
      [] cat = "tag_dating_singles" -> <<
            <<"d", "a", "t", "i", "n", "g">>,
            <<"s", "i", "n", "g", "l", "e", "s">>,
            <<"s", "p", "e", "e", "d", "d", "a", "t", "i", "n", "g">>,
            <<"s", "p", "e", "e", "d", "_", "d", "a", "t", "i", "n", "g">>,
            <<"m", "a", "t", "c", "h", "m", "a", "k", "i", "n", "g">>,
            <<"m", "a", "t", "c", "h", "m", "a", "k", "e", "r">>,
            <<"d", "u", "b", "l", "i", "n", "_", "s", "p", "e", "e", "d", "_", "d", "a", "t", "i", "n", "g">>,
            <<"s", "p", "e", "e", "d", "_", "d", "a", "t", "e">>>>
      [] cat = "tag_education_business" -> <<
            <<"c", "l", "a", "s", "s", ",", " ", "t", "r", "a", "i", "n", "i", "n", "g", ",", " ", "o", "r", " ", "w", "o", "r", "k", "s", "h", "o", "p">>,
            <<"w", "o", "r", "k", "s", "h", "o", "p">>,
            <<"c", "o", "n", "f", "e", "r", "e", "n", "c", "e">>,
            <<"b", "u", "s", "i", "n", "e", "s", "s", " ", "&", " ", "p", "r", "o", "f", "e", "s", "s", "i", "o", "n", "a", "l">>,
            <<"s", "e", "m", "i", "n", "a", "r", " ", "o", "r", " ", "t", "a", "l", "k">>,
            <<"n", "e", "t", "w", "o", "r", "k", "i", "n", "g">>,
            <<"m", "e", "e", "t", "i", "n", "g", " ", "o", "r", " ", "n", "e", "t", "w", "o", "r", "k", "i", "n", "g", " ", "e", "v", "e", "n", "t">>,
            <<"s", "t", "a", "r", "t", "u", "p", "s", " ", "&", " ", "s", "m", "a", "l", "l", " ", "b", "u", "s", "i", "n", "e", "s", "s">>,
            <<"t", "r", "a", "i", "n", "i", "n", "g">>,
            <<"e", "d", "u", "c", "a", "t", "i", "o", "n">>,
            <<"s", "c", "i", "e", "n", "c", "e", " ", "&", " ", "t", "e", "c", "h", "n", "o", "l", "o", "g", "y">>,
            <<"t", "r", "a", "d", "e", "s", "h", "o", "w", ",", " ", "c", "o", "n", "s", "u", "m", "e", "r", " ", "s", "h", "o", "w", ",", " ", "o", "r", " ", "e", "x", "p", "o">>>>
      [] cat = "tag_arts_culture" -> <<
            <<"p", "e", "r", "f", "o", "r", "m", "i", "n", "g", " ", "&", " ", "v", "i", "s", "u", "a", "l", " ", "a", "r", "t", "s">>,
            <<"a", "r", "t">>,
            <<"p", "a", "i", "n", "t", "i", "n", "g">>,
            <<"t", "h", "e", "a", "t", "r", "e">>,
            <<"p", "e", "r", "f", "o", "r", "m", "a", "n", "c", "e">>,
            <<"f", "i", "l", "m", ",", " ", "m", "e", "d", "i", "a", " ", "&", " ", "e", "n", "t", "e", "r", "t", "a", "i", "n", "m", "e", "n", "t">>,
            <<"c", "r", "e", "a", "t", "i", "v", "i", "t", "y">>,
            <<"c", "r", "e", "a", "t", "i", "v", "e">>,
            <<"c", "r", "a", "f", "t">>,
            <<"d", "i", "y">>,
            <<"c", "o", "m", "m", "u", "n", "i", "t", "y", " ", "&", " ", "c", "u", "l", "t", "u", "r", "e">>,
            <<"c", "o", "m", "m", "u", "n", "i", "t", "y">>,
            <<"c", "o", "m", "e", "d", "y">>,
            <<"s", "t", "a", "n", "d", "u", "p", "c", "o", "m", "e", "d", "y">>,
            <<"s", "t", "a", "n", "d", "u", "p">>,
            <<"c", "o", "m", "e", "d", "y", "_", "c", "l", "u", "b">>>>
      [] cat = "tag_wellness_health" -> <<
            <<"h", "e", "a", "l", "t", "h", " ", "&", " ", "w", "e", "l", "l", "n", "e", "s", "s">>,
            <<"y", "o", "g", "a">>,
            <<"m", "e", "d", "i", "t", "a", "t", "i", "o", "n">>,
            <<"m", "i", "n", "d", "f", "u", "l", "n", "e", "s", "s">>,
            <<"r", "e", "l", "a", "x", "a", "t", "i", "o", "n">>,
            <<"s", "o", "u", "n", "d", "b", "a", "t", "h">>,
            <<"s", "o", "u", "n", "d", "h", "e", "a", "l", "i", "n", "g">>,
            <<"p", "e", "r", "s", "o", "n", "a", "l", " ", "h", "e", "a", "l", "t", "h">>,
            <<"m", "e", "d", "i", "c", "i", "n", "e">>,
            <<"w", "e", "l", "l", "n", "e", "s", "s">>,
            <<"c", "a", "c", "a", "o">>,
            <<"r", "e", "l", "i", "g", "i", "o", "n", " ", "&", " ", "s", "p", "i", "r", "i", "t", "u", "a", "l", "i", "t", "y">>,
            <<"w", "o", "m", "e", "n", "_", "e", "m", "p", "o", "w", "e", "r", "m", "e", "n", "t">>>>
      [] cat = "tag_food_drink" -> <<
            <<"f", "o", "o", "d", " ", "&", " ", "d", "r", "i", "n", "k">>,
            <<"f", "o", "o", "d">>,
            <<"w", "i", "n", "e">>,
            <<"c", "a", "c", "a", "o">>>>
      [] cat = "tag_holiday" -> <<
            <<"c", "h", "r", "i", "s", "t", "m", "a", "s">>,
            <<"s", "e", "a", "s", "o", "n", "a", "l", " ", "&", " ", "h", "o", "l", "i", "d", "a", "y">>,
            <<"f", "e", "s", "t", "i", "v", "e">>,
            <<"h", "o", "l", "i", "d", "a", "y">>,
            <<"c", "h", "r", "i", "s", "t", "m", "a", "s", "_", "e", "v", "e", "n", "t", "s">>,
            <<"n", "e", "w", " ", "y", "e", "a", "r", "s", " ", "e", "v", "e">>,
            <<"n", "e", "w", "y", "e", "a", "r", "s", "e", "v", "e">>,
            <<"c", "o", "u", "n", "t", "d", "o", "w", "n">>,
            <<"c", "a", "r", "o", "l", "s">>>>
      [] cat = "tag_hobbies_lifestyle" -> <<
            <<"h", "o", "b", "b", "i", "e", "s", " ", "&", " ", "s", "p", "e", "c", "i", "a", "l", " ", "i", "n", "t", "e", "r", "e", "s", "t">>,
            <<"h", "o", "m", "e", " ", "&", " ", "l", "i", "f", "e", "s", "t", "y", "l", "e">>,
            <<"t", "o", "u", "r">>,
            <<"t", "r", "a", "v", "e", "l">>,
            <<"t", "r", "a", "v", "e", "l", " ", "&", " ", "o", "u", "t", "d", "o", "o", "r">>,
            <<"s", "p", "o", "r", "t", "s", " ", "&", " ", "f", "i", "t", "n", "e", "s", "s">>,
            <<"f", "a", "m", "i", "l", "y", " ", "&", " ", "e", "d", "u", "c", "a", "t", "i", "o", "n">>,
            <<"f", "a", "m", "i", "l", "y", "_", "f", "r", "i", "e", "n", "d", "l", "y">>,
            <<"g", "a", "m", "e", " ", "o", "r", " ", "c", "o", "m", "p", "e", "t", "i", "t", "i", "o", "n">>,
            <<"n", "a", "t", "u", "r", "e">>>>
TagCategorySet == {TagCategories[i] : i \in 1..Len(TagCategories)}

\* whether w occurs in s as a substring
IsSubstring(w, s) == \E i \in 1..(Len(s) + 1) : HasAt(s, i, w) \/ Len(w) = 0

\* a variant: a keyword counts when it occurs inside a token
TagFlag_Substring(tokens, cat) ==
    IF \E k \in 1..Len(aggregation_map(cat)) :
           \E j \in 1..Len(tokens) : IsSubstring(aggregation_map(cat)[k], tokens[j])
    THEN 1 ELSE 0

\* 1 if any(tag in x for tag in tags) else 0, x the list of normalized tokens
TagFlag(tokens, cat) ==
    IF \E k \in 1..Len(aggregation_map(cat)) :
           \E j \in 1..Len(tokens) : tokens[j] = aggregation_map(cat)[k]
    THEN 1 ELSE 0

\* json.dumps of a list of plain strings
JsonDumps(tokens) ==
    <<"[">> \o StrJoin(<<",", " ">>, Tuple([i \in 1..Len(tokens) |-> <<"\"">> \o tokens[i] \o <<"\"">>]))
        \o <<"]">>

\* a variant: the day names counted one day late
DayName_EpochFriday(x) ==
    IF x.t = "dt" THEN Str(DayNames[(((x.v \div 86400) + 4) % 7) + 1]) ELSE NaN

\* Series.dt.day_name(), .dt.month, .dt.hour, .dt.minute of one timestamp
DayName(x) == IF x.t = "dt" THEN Str(DayNames[(((x.v \div 86400) + 3) % 7) + 1]) ELSE NaN
MonthOf(x) == IF x.t = "dt" THEN PyInt(MonthOfDays(x.v \div 86400)) ELSE NaN
HourOf(x) == IF x.t = "dt" THEN PyInt((x.v % 86400) \div 3600) ELSE NaN
MinuteOf(x) == IF x.t = "dt" THEN PyInt((x.v % 3600) \div 60) ELSE NaN

\* (end - start).dt.total_seconds() / 3600: the float is held by its seconds
DurationHours(start, end) ==
    IF start.t = "dt" /\ end.t = "dt" THEN [t |-> "hours", v |-> end.v - start.v] ELSE NaN

\* (start - published).dt.days: the days field of the difference
LeadDays(start, published) ==
    IF start.t = "dt" /\ published.t = "dt"
    THEN PyInt((start.v - published.v) \div 86400) ELSE NaN

\* bool -> 0/1 of astype(int)
AsInt(b) == PyInt(IF b THEN 1 ELSE 0)

SourceCols == {"start_date", "start_time", "end_date", "end_time", "published", PriceStd}

FinalColumns == {"id", "name", "summary", "url", "published",
                 "start_datetime", "end_datetime", "duration_hours",
                 "primary_venue_name", "venue_street", "venue_line2", "venue_city",
                 "city", "neighbourhood", "price", "is_free", "price_category",
                 "tags_list", "tags_string"}

IsWeekend(weekday) == weekday.t = "str" /\ weekday.v \in {<<"S", "a", "t", "u", "r", "d", "a", "y">>, <<"S", "u", "n", "d", "a", "y">>}

IsWeekendNight(weekday, hour) ==
    /\ weekday.t = "str" /\ weekday.v \in {<<"F", "r", "i", "d", "a", "y">>, <<"S", "a", "t", "u", "r", "d", "a", "y">>}
    /\ hour.t = "int" /\ hour.v >= 18

\* the columns engineer_features holds after line 262, from the row's
\* composed timestamps, numeric price and normalized tag tokens
EngineeredRow(r, start, end, published, price, tokens) ==
    [c \in TagCategorySet |-> PyInt(TagFlag(tokens, c))] @@
    [id |-> r["id"], name |-> r["name"], summary |-> r["summary"], url |-> r["url"],
     published |-> published,
     start_time |-> start, end_time |-> end,
     duration_hours |-> DurationHours(start, end),
     venue_name |-> r["primary_venue_name"],
     street |-> r["venue_street"], address_line2 |-> r["venue_line2"],
     venue_city |-> r["venue_city"],
     location_city |-> r["city"], neighbourhood |-> r["neighbourhood"],
     price |-> price,
     is_free |-> AsInt(price.t = "num" /\ price.v = 0),
     price_category |-> categorize_price(price),
     tags_list |-> Str(JsonDumps(tokens)), tags_string |-> r["tags_string"],
     event_month |-> MonthOf(start), event_weekday |-> DayName(start),
     event_hour |-> HourOf(start), event_minute |-> MinuteOf(start),
     is_weekend |-> AsInt(IsWeekend(DayName(start))),
     is_weekend_night |-> AsInt(IsWeekendNight(DayName(start), HourOf(start))),
     days_published_before_event |-> LeadDays(start, published)]

\* lines 112-262 on one row: datetimes, price, projection, tags, temporal
\* features, lead time, renaming, serialization, 0/1 casts
EngineerRow(r) ==
    EngineeredRow(r,
                  ToDatetime(ConcatDateTime(r["start_date"], r["start_time"])),
                  ToDatetime(ConcatDateTime(r["end_date"], r["end_time"])),
                  ToDatetime(r["published"]),
                  ToNumeric(r[PriceStd]),
                  safe_json_parse_and_normalize(r["tags_list"]).val)

\* p.lower() != "unknown" for a str p
IsKnownStr(p) == IsStr(p) /\ StrLower(Chars(p)) # <<"u", "n", "k", "n", "o", "w", "n">>

\* row.get(key): None for a key the row does not have
RowGet(row, key) == IF key \in DOMAIN row THEN row[key] ELSE PyNone

JoinKnown(parts) ==
    Str(StrJoin(<<",", " ">>, Tuple([i \in 1..Len(parts) |-> Chars(parts[i])])))

build_full_address(row) ==
    JoinKnown(SelectSeq(<<RowGet(row, "street"), RowGet(row, "address_line2"),
                          RowGet(row, "city_resolved"), RowGet(row, "eircode")>>,
                        IsKnownStr))

resolve_city(row) ==
    IF IsKnownStr(RowGet(row, "venue_city"))
    THEN RowGet(row, "venue_city")
    ELSE RowGet(row, "location_city")

\* a NaN district compares false with everything and falls to the last return
ClusterOf(district) ==
    IF district.t = "none" THEN Str(<<"u", "n", "k", "n", "o", "w", "n">>)
    ELSE IF district.t = "nan" THEN Str(<<"o", "t", "h", "e", "r">>)
    ELSE IF district.v <= 2 THEN Str(<<"c", "i", "t", "y", "_", "c", "e", "n", "t", "r", "e">>)
    ELSE IF district.v \in {4, 6} THEN Str(<<"s", "o", "u", "t", "h", "_", "i", "n", "n", "e", "r">>)
    ELSE IF district.v >= 7 THEN Str(<<"o", "u", "t", "e", "r", "_", "d", "u", "b", "l", "i", "n">>)
    ELSE Str(<<"o", "t", "h", "e", "r">>)

dublin_area_cluster(row) == ClusterOf(RowGet(row, "dublin_postal_district"))

\* The column Series.apply(extract_dublin_postal_district) builds: a column of
\* None alone stays None; None beside an int makes a float column, None as NaN.
DistrictColumn(vals) ==
    IF \E i \in 1..Len(vals) : vals[i].t = "int"
    THEN Tuple([i \in 1..Len(vals) |-> IF vals[i].t = "int" THEN vals[i] ELSE NaN])
    ELSE vals

\* lines 264-272: the eircode triple and the district
WithEircode(r, code, district) ==
    [eircode |-> code[1], eircode_routing_key |-> code[2],
     eircode_unique_id |-> code[3], dublin_postal_district |-> district] @@ r

\* lines 274-280
WithFullAddress(r) == [full_address |-> build_full_address(r)] @@ r
WithCity(r) == [city |-> resolve_city(r)] @@ r
WithCluster(r) == [dublin_area_cluster |-> dublin_area_cluster(r)] @@ r

\* lines 264-280 on one row, district the row's cell of the district column
GeoRow(r, district) ==
    WithCluster(WithCity(WithFullAddress(
        WithEircode(r, extract_eircode(r["address_line2"]).val, district))))

\* a variant: eircode_unique_id left unfilled
FinalFill_NoEircodeId(r) ==
    [price_missing |-> AsInt(IsNa(r["price"])),
     price |-> FillNa(r["price"], Num(0)),
     eircode |-> FillNa(r["eircode"], Str(<<"u", "n", "k", "n", "o", "w", "n">>)),
     eircode_routing_key |-> FillNa(r["eircode_routing_key"], Str(<<"u", "n", "k", "n", "o", "w", "n">>)),
     dublin_postal_district |-> FillNa(r["dublin_postal_district"], PyInt(-1)),
     tags_string |-> FillNa(r["tags_string"], Str(<<>>))] @@ r

\* lines 282-290 on one row: price_missing, then the fills
FinalFill(r) ==
    [price_missing |-> AsInt(IsNa(r["price"])),
     price |-> FillNa(r["price"], Num(0)),
     eircode |-> FillNa(r["eircode"], Str(<<"u", "n", "k", "n", "o", "w", "n">>)),
     eircode_routing_key |-> FillNa(r["eircode_routing_key"], Str(<<"u", "n", "k", "n", "o", "w", "n">>)),
     eircode_unique_id |-> FillNa(r["eircode_unique_id"], Str(<<"u", "n", "k", "n", "o", "w", "n">>)),
     dublin_postal_district |-> FillNa(r["dublin_postal_district"], PyInt(-1)),
     tags_string |-> FillNa(r["tags_string"], Str(<<>>))] @@ r

FrameOf(rows) == [cols |-> IF Len(rows) = 0 THEN {} ELSE DOMAIN rows[1], rows |-> rows]

\* lines 264-290 on the rows left after drop_duplicates
EngineerGeo(rows, districts) ==
    FrameOf(Tuple([i \in 1..Len(rows) |-> FinalFill(GeoRow(rows[i], districts[i]))]))

EngineerDistricts(rows) ==
    EngineerGeo(rows, DistrictColumn(Tuple([i \in 1..Len(rows) |->
                          extract_dublin_postal_district(rows[i]["address_line2"]).val])))

\* lines 258-290, a what drop_duplicates returned
EngineerFinish(a) ==
    IF a.exc # "none" THEN a ELSE [exc |-> "none", df |-> EngineerDistricts(a.df.rows)]

engineer_features(d) ==
    IF ~(SourceCols \subseteq d.cols) THEN [exc |-> "KeyError", df |-> d]
    ELSE IF ~(FinalColumns \subseteq (d.cols \cup {"start_datetime", "end_datetime", "duration_hours",
                                             "price", "is_free", "price_category"}))
    THEN [exc |-> "KeyError", df |-> d]
    ELSE IF \E i \in 1..Len(d.rows) :
                safe_json_parse_and_normalize(d.rows[i]["tags_list"]).exc # "none"
    THEN [exc |-> "TypeError", df |-> d]
    ELSE EngineerFinish(drop_duplicates(
             FrameOf(Tuple([i \in 1..Len(d.rows) |-> EngineerRow(d.rows[i])]))))

PreferredOrder == <<
    "id", "name", "summary", "url",
    "published", "start_time", "end_time", "duration_hours",
    "days_published_before_event", "event_month", "event_weekday", "event_hour",
    "event_minute", "is_weekend", "is_weekend_night", "venue_name",
    "city", "neighbourhood", "street", "address_line2",
    "eircode", "eircode_routing_key", "eircode_unique_id", "dublin_postal_district",
    "full_address", "dublin_area_cluster", "price", "is_free",
    "price_category", "tags_string", "tags_list", "tag_music_event",
    "tag_nightlife_social", "tag_dating_singles", "tag_education_business", "tag_arts_culture",
    "tag_wellness_health", "tag_food_drink", "tag_holiday", "tag_hobbies_lifestyle">>


\* the columns of preferred_order the frame has; all other columns go
order_columns(d) == DropCols(d, d.cols \ Range(PreferredOrder))

---------------------------------------------------------------------------
(* Inputs                                                                  *)

\* raw field values handed to the field extractors: null, unparseable text,
\* text and native values of the wrong shape, well-formed lists
FieldInputs == <<
    PyNone,
    NaN,
    PyInt(42),
    Str(<<"C", "o", "r", "k">>),
    Str(<<"1", "2">>),
    Str(<<"D", "u", "b", "l", "i", "n", " ", "2">>),
    Str(<<"D", "u", "b", "l", "i", "n", " ", "6", ",", " ", "D", "0", "6", " ", "X", "Y", "4", "5">>),
    Str(<<"d", "0", "2", "x", "y", "4", "5", " ", "D", "u", "b", "l", "i", "n">>),
    Str(<<"D", "u", "b", "l", "i", "n", " ", "1", "5">>),
    Str(<<"D", "U", "B", "L", "I", "N", " ", " ", " ", "4">>),
    Str(<<"D", "u", "b", "l", "i", "n", "4">>),
    Str(<<"D", "u", "b", "l", "i", "n", " ", "1", "2", "3">>),
    Str(<<"A", "D", "0", "2", " ", "X", "Y", "4", "5">>),
    Str(<<"D", "0", "2", " ", "X", "Y", "4", "5", "6">>),
    Str(<<"C", "o", ".", " ", "D", "u", "b", "l", "i", "n", ",", " ", "A", "9", "4", " ", "X", "2", "Y", "3", " ", "I", "r", "e", "l", "a", "n", "d">>),
    ReprStr(List(<<Str(<<"G", "r", "a", "f", "t", "o", "n", " ", "S", "t", "r", "e", "e", "t">>), Str(<<"D", "u", "b", "l", "i", "n", " ", "2">>)>>)),
    ReprStr(List(<<>>)),
    ReprStr(Dict(<<KV(<<"t", "y", "p", "e">>, Str(<<"l", "o", "c", "a", "l", "i", "t", "y">>))>>)),
    ReprStr(List(<<Dict(<<KV(<<"d", "i", "s", "p", "l", "a", "y", "_", "n", "a", "m", "e">>, Str(<<"W", "i", "n", "e">>))>>)>>)),
    List(<<Str(<<"M", "a", "i", "n", " ", "S", "t">>), Str(<<"D", "u", "b", "l", "i", "n", " ", "6">>)>>),
    List(<<Str(<<"O", "n", "l", "y", " ", "l", "i", "n", "e">>)>>),
    List(<<PyInt(5), PyInt(7)>>),
    List(<<Str(<<"1", " ", "H", "i", "g", "h", " ", "S", "t">>), Str(<<"D", "u", "b", "l", "i", "n", "e", "r", "s", " ", "R", "d">>)>>),
    List(<<Str(<<"T", "h", "e", " ", "S", "q", "u", "a", "r", "e">>), Str(<<"C", "o", ".", " ", "D", "u", "b", "l", "i", "n">>)>>),
    List(<<Str(<<"U", "n", "i", "t", " ", "3">>), Str(<<"D", "U", "B", "L", "I", "N", " ", "4">>)>>),
    List(<<Str(<<"F", "l", "a", "t", " ", "1">>), List(<<Str(<<"D", "u", "b", "l", "i", "n">>)>>)>>),
    List(<<Str(<<"a">>), Str(<<"b">>), Str(<<"D", "u", "b", "l", "i", "n">>)>>),
    Dict(<<KV(<<"t", "y", "p", "e">>, Str(<<"l", "o", "c", "a", "l", "i", "t", "y">>)), KV(<<"n", "a", "m", "e">>, Str(<<"D", "u", "b", "l", "i", "n">>))>>),
    List(<<Dict(<<KV(<<"t", "y", "p", "e">>, Str(<<"l", "o", "c", "a", "l", "i", "t", "y">>)), KV(<<"n", "a", "m", "e">>, Str(<<"D", "u", "b", "l", "i", "n">>))>>),
           Dict(<<KV(<<"t", "y", "p", "e">>, Str(<<"n", "e", "i", "g", "h", "b", "o", "u", "r", "h", "o", "o", "d">>)), KV(<<"n", "a", "m", "e">>, Str(<<"T", "e", "m", "p", "l", "e", " ", "B", "a", "r">>))>>)>>),
    List(<<PyInt(3), Dict(<<KV(<<"t", "y", "p", "e">>, Str(<<"r", "e", "g", "i", "o", "n">>)), KV(<<"n", "a", "m", "e">>, Str(<<"L", "e", "i", "n", "s", "t", "e", "r">>))>>)>>),
    List(<<Dict(<<KV(<<"t", "y", "p", "e">>, Str(<<"l", "o", "c", "a", "l", "i", "t", "y">>)), KV(<<"n", "a", "m", "e">>, PyInt(7))>>)>>),
    List(<<Dict(<<KV(<<"t", "y", "p", "e">>, PyInt(1)), KV(<<"n", "a", "m", "e">>, Str(<<"x">>))>>),
           Dict(<<KV(<<"t", "y", "p", "e">>, Str(<<"l", "o", "c", "a", "l", "i", "t", "y">>))>>)>>),
    List(<<Dict(<<KV(<<"d", "i", "s", "p", "l", "a", "y", "_", "n", "a", "m", "e">>, Str(<<"T", "e", "c", "h", "n", "o">>))>>),
           Dict(<<KV(<<"d", "i", "s", "p", "l", "a", "y", "_", "n", "a", "m", "e">>, Str(<<"L", "i", "v", "e", " ", "M", "u", "s", "i", "c">>))>>)>>),
    List(<<Dict(<<KV(<<"d", "i", "s", "p", "l", "a", "y", "_", "n", "a", "m", "e">>, Str(<<>>))>>),
           Dict(<<KV(<<"n", "a", "m", "e">>, Str(<<"x">>))>>),
           Str(<<"l", "o", "o", "s", "e">>)>>),
    List(<<Dict(<<KV(<<"d", "i", "s", "p", "l", "a", "y", "_", "n", "a", "m", "e">>, PyInt(5))>>)>>),
    List(<<Dict(<<KV(<<"d", "i", "s", "p", "l", "a", "y", "_", "n", "a", "m", "e">>, PyInt(0))>>)>>)
>>

\* prices handed to categorize_price, in hundredths
PriceInputs == <<Num(-500), Num(-1), Num(0), Num(1), Num(500), Num(999), Num(1000),
                 Num(1500), Num(2999), Num(3000), Num(5000), NaN>>

\* One raw record as the normalizer sees it: leaf path -> value.
BaseEvent ==
    [c \in {"id", "name", "summary", "url", "published", "start_date", "start_time",
            "end_date", "end_time", PriceCol, "primary_venue.name", AddrCol,
            "locations", "tags", "urgency_signals.messages", "image.url"} |->
        CASE c = "id" -> PyInt(1)
          [] c = "name" -> Str(<<"G", "i", "g">>)
          [] c = "summary" -> Str(<<"A", " ", "n", "i", "g", "h", "t">>)
          [] c = "url" -> Str(<<"e", ".", "i", "e", "/", "1">>)
          [] c = "published" -> Str(<<"2", "0", "2", "5", "-", "0", "2", "-", "2", "0", "T", "1", "0", ":", "0", "0", ":", "0", "0", "Z">>)
          [] c = "start_date" -> Str(<<"2", "0", "2", "5", "-", "0", "3", "-", "0", "1">>)
          [] c = "start_time" -> Str(<<"2", "0", ":", "0", "0", ":", "0", "0">>)
          [] c = "end_date" -> Str(<<"2", "0", "2", "5", "-", "0", "3", "-", "0", "1">>)
          [] c = "end_time" -> Str(<<"2", "3", ":", "3", "0", ":", "0", "0">>)
          [] c = PriceCol -> Str(<<"1", "5", ".", "0", "0">>)
          [] c = "primary_venue.name" -> Str(<<"H", "a", "l", "l">>)
          [] c = AddrCol -> List(<<Str(<<"M", "a", "i", "n", " ", "S", "t">>), Str(<<"D", "u", "b", "l", "i", "n", " ", "6">>)>>)
          [] c = "locations" ->
                List(<<Dict(<<KV(<<"t", "y", "p", "e">>, Str(<<"l", "o", "c", "a", "l", "i", "t", "y">>)), KV(<<"n", "a", "m", "e">>, Str(<<"D", "u", "b", "l", "i", "n">>))>>),
                       Dict(<<KV(<<"t", "y", "p", "e">>, Str(<<"n", "e", "i", "g", "h", "b", "o", "u", "r", "h", "o", "o", "d">>)),
                              KV(<<"n", "a", "m", "e">>, Str(<<"R", "a", "t", "h", "m", "i", "n", "e", "s">>))>>)>>)
          [] c = "tags" -> List(<<Dict(<<KV(<<"d", "i", "s", "p", "l", "a", "y", "_", "n", "a", "m", "e">>, Str(<<"L", "i", "v", "e", " ", "M", "u", "s", "i", "c">>))>>)>>)
          [] c = "urgency_signals.messages" -> List(<<>>)
          [] OTHER -> Str(<<"e", ".", "i", "e", "/", "1", ".", "p", "n", "g">>)]

\* rec with the fields of upd replaced or added, and rec without a field
With(rec, upd) == upd @@ rec
Without(rec, c) == Restrict(rec, (DOMAIN rec) \ {c})

Tag(name) == Dict(<<KV(<<"d", "i", "s", "p", "l", "a", "y", "_", "n", "a", "m", "e">>, name)>>)

\* The records the runs draw from: the complete record of the end-to-end
\* example, a second and a third event, a duplicate of the first, records with
\* null, malformed or absent fields.
EventPool == <<
    BaseEvent,
    With(BaseEvent,
         [id |-> PyInt(2), name |-> Str(<<"R", "a", "v", "e">>), start_date |-> Str(<<"2", "0", "2", "5", "-", "0", "3", "-", "0", "3">>),
          start_time |-> Str(<<"0", "9", ":", "1", "5", ":", "0", "0">>), end_date |-> Str(<<"2", "0", "2", "5", "-", "0", "3", "-", "0", "2">>),
          tags |-> List(<<Tag(Str(<<" ", "T", "e", "c", "h", "n", "o", " ">>)), Tag(Str(<<"W", "i", "n", "e">>))>>)]
         @@ (PriceCol :> Str(<<"0">>))
         @@ (AddrCol :> List(<<Str(<<"1", " ", "H", "i", "g", "h", " ", "S", "t">>), Str(<<"D", "u", "b", "l", "i", "n", " ", "2", ",", " ", "D", "0", "2", " ", "X", "Y", "4", "5">>)>>))),
    With(BaseEvent,
         [name |-> Str(<<"C", "o", "p", "y">>), summary |-> PyNone,
          tags |-> List(<<Tag(Str(<<"h", "i", "k", "i", "n", "g">>))>>)]
         @@ (PriceCol :> PyNone)
         @@ (AddrCol :> List(<<>>))),
    With(BaseEvent,
         [id |-> PyInt(3), published |-> Str(<<"s", "o", "o", "n">>), start_date |-> PyNone,
          locations |-> PyNone,
          tags |-> List(<<Tag(Str(<<"C", "a", "c", "a", "o">>)), Tag(Str(<<>>)), Str(<<"l", "o", "o", "s", "e">>)>>)]
         @@ (PriceCol :> Str(<<"n", "/", "a">>))
         @@ (AddrCol :> ReprStr(List(<<Str(<<"P", "i", "e", "r", " ", "R", "d">>), Str(<<"H", "o", "w", "t", "h", ",", " ", "C", "o", ".", " ", "D", "u", "b", "l", "i", "n">>)>>)))),
    With(BaseEvent,
         [id |-> PyInt(2), published |-> Str(<<"2", "0", "2", "5", "-", "0", "3", "-", "0", "2", " ", "2", "1", ":", "1", "5", ":", "0", "0">>),
          tags |-> List(<<>>)]
         @@ (PriceCol :> PyInt(45))
         @@ (AddrCol :> Str(<<"C", "o", "r", "k">>))),
    With(BaseEvent, [id |-> PyNone, tags |-> List(<<Tag(PyInt(5))>>)]),
    Without(With(BaseEvent, [id |-> PyInt(3)] @@ (PriceCol :> Str(<<"-", "5">>))), "locations"),
    Without(Without(With(BaseEvent, [id |-> PyInt(2), tags |-> PyNone]), "summary"),
            "urgency_signals.messages")
>>

\* the longest list of raw records a run loads
MaxEvents == 2

\* the lists of at most n indices into EventPool
IndexSeqs(n) == UNION {[1..k -> 1..Len(EventPool)] : k \in 0..n}

NoCall == [fn |-> "none", arg |-> PyNone, target |-> <<>>, out |-> Ret(PyNone)]

---------------------------------------------------------------------------
(* Direct calls of the helper functions (src/src/test.py calls them so)    *)

\* the record of one call: the function, its argument(s) and what it returned
Called(fn, arg, target, out) == [fn |-> fn, arg |-> arg, target |-> target, out |-> out]

Call_categorize_price ==
    /\ stage = "idle" /\ call = NoCall /\ scrape.pc = "off"
    /\ \E i \in 1..Len(PriceInputs) :
           call' = Called("categorize_price", PriceInputs[i], <<>>,
                          Ret(categorize_price(PriceInputs[i])))
    /\ UNCHANGED <<stage, events, df, dfClean, exc, scrape>>

Call_extract_from_locations ==
    /\ stage = "idle" /\ call = NoCall /\ scrape.pc = "off"
    /\ \E i \in 1..Len(FieldInputs), target_type \in {<<"l", "o", "c", "a", "l", "i", "t", "y">>, <<"n", "e", "i", "g", "h", "b", "o", "u", "r", "h", "o", "o", "d">>} :
           call' = Called("extract_from_locations", FieldInputs[i], target_type,
                          extract_from_locations(FieldInputs[i], target_type))
    /\ UNCHANGED <<stage, events, df, dfClean, exc, scrape>>

Call_parse_address ==
    /\ stage = "idle" /\ call = NoCall /\ scrape.pc = "off"
    /\ \E i \in 1..Len(FieldInputs) :
           call' = Called("parse_address", FieldInputs[i], <<>>,
                          parse_address(FieldInputs[i]))
    /\ UNCHANGED <<stage, events, df, dfClean, exc, scrape>>

Call_extract_tags ==
    /\ stage = "idle" /\ call = NoCall /\ scrape.pc = "off"
    /\ \E i \in 1..Len(FieldInputs) :
           call' = Called("extract_tags", FieldInputs[i], <<>>,
                          extract_tags(FieldInputs[i]))
    /\ UNCHANGED <<stage, events, df, dfClean, exc, scrape>>

Call_extract_eircode ==
    /\ stage = "idle" /\ call = NoCall /\ scrape.pc = "off"
    /\ \E i \in 1..Len(FieldInputs) :
           call' = Called("extract_eircode", FieldInputs[i], <<>>,
                          extract_eircode(FieldInputs[i]))
    /\ UNCHANGED <<stage, events, df, dfClean, exc, scrape>>

Call_extract_dublin_postal_district ==
    /\ stage = "idle" /\ call = NoCall /\ scrape.pc = "off"
    /\ \E i \in 1..Len(FieldInputs) :
           call' = Called("extract_dublin_postal_district", FieldInputs[i], <<>>,
                          extract_dublin_postal_district(FieldInputs[i]))
    /\ UNCHANGED <<stage, events, df, dfClean, exc, scrape>>

---------------------------------------------------------------------------
(* The pipeline: data_cleaning.main and feature_engineering.main           *)

\* load_events_json: the file holds any list of raw records
LoadEvents ==
    /\ stage = "idle" /\ call = NoCall /\ scrape.pc = "off"
    /\ \E ix \in IndexSeqs(MaxEvents) :
           events' = [i \in 1..Len(ix) |-> EventPool[ix[i]]]
    /\ stage' = "loaded"
    /\ UNCHANGED <<df, dfClean, exc, call, scrape>>

NormalizeEvents ==
    /\ stage = "loaded"
    /\ df' = normalize_events(events)
    /\ stage' = "normalized"
    /\ UNCHANGED <<events, dfClean, exc, call, scrape>>

\* a call that returned r, a frame or an exception, takes the run to stage ok
\* or to stage failed
Returned(r, ok, failed) ==
    IF r.exc = "none"
    THEN /\ df' = r.df /\ stage' = ok /\ exc' = exc
    ELSE /\ df' = df /\ stage' = failed /\ exc' = r.exc

CleanEvents ==
    /\ stage = "normalized"
    /\ Returned(clean_events(df), "cleaned", "clean_raised")
    /\ dfClean' = df'
    /\ UNCHANGED <<events, call, scrape>>

\* clean_events on the frame clean_events returned
CleanAgain ==
    /\ stage = "cleaned"
    /\ Returned(clean_events(df), "recleaned", "reclean_raised")
    /\ UNCHANGED <<events, dfClean, call, scrape>>

EngineerFeatures ==
    /\ stage = "cleaned"
    /\ Returned(engineer_features(df), "engineered", "engineer_raised")
    /\ UNCHANGED <<events, dfClean, call, scrape>>

OrderColumns ==
    /\ stage = "engineered"
    /\ df' = order_columns(df)
    /\ stage' = "ordered"
    /\ UNCHANGED <<events, dfClean, exc, call, scrape>>

---------------------------------------------------------------------------
(* Acquisition: scrape_all and main of data_acquisition.py                 *)

\* the most pages the first response announces
MaxPages == 3

\* What session.post brings for page p, the records of a page named by
\* numbers: status 200 with a well-formed body,
\* status 200 with the body {}, status 200 with a body without "events",
\* another status, or no response at all (requests raises).
Responses(p) ==
    {[kind |-> "ok", status_code |-> 200, page_count |-> n, results |-> rs] :
        n \in 1..MaxPages,
        rs \in {<<>>, <<10 * p + 1>>, <<10 * p + 1, 10 * p + 2>>}}
    \cup {[kind |-> "empty", status_code |-> 200, page_count |-> 0, results |-> <<>>],
          [kind |-> "malformed", status_code |-> 200, page_count |-> 0, results |-> <<>>],
          [kind |-> "refused", status_code |-> 403, page_count |-> 0, results |-> <<>>],
          [kind |-> "timeout", status_code |-> 0, page_count |-> 0, results |-> <<>>]}

\* fetch_page: None for a status other than 200, else response.json()
fetch_page(response) ==
    IF response.kind = "timeout" THEN Raise("Timeout")
    ELSE IF response.status_code # 200 THEN Ret("None")
    ELSE Ret(response.kind)

\* lines 84-91: the first page, fetched as data; s holds the request posted
AfterFirst(s, response, data) ==
    IF data.exc # "none" THEN [s EXCEPT !.pc = "raised", !.exc = data.exc]
    ELSE IF data.val = "None" THEN [s EXCEPT !.pc = "raised", !.exc = "RuntimeError"]
    ELSE IF data.val # "ok" THEN [s EXCEPT !.pc = "raised", !.exc = "KeyError"]
    ELSE [s EXCEPT !.pc = "looping", !.total_pages = response.page_count,
                   !.all_events = response.results, !.page = 2]

\* a variant: a later page that fails ends the run like the first page
AfterNext_RaiseOnFailure(s, response, data) ==
    IF data.exc # "none" THEN [s EXCEPT !.pc = "raised", !.exc = data.exc]
    ELSE IF data.val = "None" THEN [s EXCEPT !.pc = "raised", !.exc = "RuntimeError"]
    ELSE IF data.val = "empty" THEN [s EXCEPT !.page = @ + 1]
    ELSE IF data.val # "ok" THEN [s EXCEPT !.pc = "raised", !.exc = "KeyError"]
    ELSE [s EXCEPT !.all_events = @ \o response.results, !.page = @ + 1]

\* lines 93-97: one round of the loop, the page fetched as data; None and {}
\* are falsy
AfterNext(s, response, data) ==
    IF data.exc # "none" THEN [s EXCEPT !.pc = "raised", !.exc = data.exc]
    ELSE IF data.val \in {"None", "empty"} THEN [s EXCEPT !.page = @ + 1]
    ELSE IF data.val # "ok" THEN [s EXCEPT !.pc = "raised", !.exc = "KeyError"]
    ELSE [s EXCEPT !.all_events = @ \o response.results, !.page = @ + 1]

\* lines 77-82: STABLE_ID unset or still the template's text raises
ScrapeStart ==
    /\ stage = "idle" /\ call = NoCall /\ scrape.pc = "off"
    /\ \E configured \in BOOLEAN :
           scrape' = IF configured THEN [scrape EXCEPT !.pc = "started"]
                     ELSE [scrape EXCEPT !.pc = "raised", !.exc = "RuntimeError"]
    /\ UNCHANGED <<stage, events, df, dfClean, exc, call>>

FetchFirst ==
    /\ scrape.pc = "started"
    /\ \E response \in Responses(1) :
           scrape' = AfterFirst(
               [scrape EXCEPT !.requested = Append(@, 1),
                       !.answers = Append(@, [kind |-> response.kind,
                           status_code |-> response.status_code,
                           results |-> response.results])],
               response, fetch_page(response))
    /\ UNCHANGED <<stage, events, df, dfClean, exc, call>>

FetchNext ==
    /\ scrape.pc = "looping" /\ scrape.page <= scrape.total_pages
    /\ \E response \in Responses(scrape.page) :
           scrape' = AfterNext(
               [scrape EXCEPT !.requested = Append(@, scrape.page),
                       !.answers = Append(@, [kind |-> response.kind,
                           status_code |-> response.status_code,
                           results |-> response.results])],
               response, fetch_page(response))
    /\ UNCHANGED <<stage, events, df, dfClean, exc, call>>

\* line 100: the loop is over
ScrapeReturn ==
    /\ scrape.pc = "looping" /\ scrape.page > scrape.total_pages
    /\ scrape' = [scrape EXCEPT !.pc = "returned"]
    /\ UNCHANGED <<stage, events, df, dfClean, exc, call>>

\* main: json.dump of the list scrape_all returned
SaveEvents ==
    /\ scrape.pc = "returned"
    /\ scrape' = [scrape EXCEPT !.pc = "saved", !.saved = scrape.all_events]
    /\ UNCHANGED <<stage, events, df, dfClean, exc, call>>

Init ==
    /\ stage = "idle"
    /\ events = <<>>
    /\ df = [cols |-> {}, rows |-> <<>>]
    /\ dfClean = [cols |-> {}, rows |-> <<>>]
    /\ exc = "none"
    /\ call = NoCall
    /\ scrape = [pc |-> "off", requested |-> <<>>, answers |-> <<>>, total_pages |-> 0,
                 page |-> 0, all_events |-> <<>>, exc |-> "none", saved |-> <<>>]

Next ==
    \/ Call_categorize_price
    \/ Call_extract_from_locations
    \/ Call_parse_address
    \/ Call_extract_tags
    \/ Call_extract_eircode
    \/ Call_extract_dublin_postal_district
    \/ LoadEvents
    \/ NormalizeEvents
    \/ CleanEvents
    \/ CleanAgain
    \/ EngineerFeatures
    \/ OrderColumns
    \/ ScrapeStart
    \/ FetchFirst
    \/ FetchNext
    \/ ScrapeReturn
    \/ SaveEvents

Spec == Init /\ [][Next]_vars

---------------------------------------------------------------------------
(* Properties                                                              *)

\* the value a raw record holds at a leaf path, NaN where it lacks the path
Field(e, c) == IF c \in DOMAIN e THEN e[c] ELSE NaN

\* the positions of the records that are the first with their id, and the
\* k-th of them in input order
FirstOccurrences ==
    {i \in 1..Len(events) :
        \A j \in 1..(i - 1) : Field(events[j], "id") # Field(events[i], "id")}

NthFirst(k) ==
    CHOOSE i \in FirstOccurrences : Cardinality({j \in FirstOccurrences : j <= i}) = k

\* the lowercased, trimmed tag tokens of raw record i
TokenSet(i) ==
    {StrStrip(StrLower(PyStr(n))) : n \in Range(extract_tags(Field(events[i], "tags")).val[1].v)}

\* the words of a text: its maximal runs of word characters
Words(s) ==
    {SubSeq(s, i, j) : <<i, j>> \in
        {p \in (1..Len(s)) \X (1..Len(s)) :
            /\ p[1] <= p[2]
            /\ \A k \in p[1]..p[2] : IsWordChar(s[k])
            /\ (p[1] = 1 \/ ~IsWordChar(s[p[1] - 1]))
            /\ (p[2] = Len(s) \/ ~IsWordChar(s[p[2] + 1]))}}

\* the leaf paths of a raw record the two stages read
RequiredRawColumns ==
    {"id", "name", "summary", "url", "published", "start_date", "start_time",
     "end_date", "end_time", PriceCol, "primary_venue.name", AddrCol, "locations", "tags"}

Label(x) == IF x.t = "str" THEN x.v ELSE <<>>

\* C1: for every numeric price p, categorize_price(p) is one of free / low /
\* medium / high, with 'free' iff p = 0, 'low' iff 0 < p < 10, 'medium' iff
\* 10 <= p < 30 and 'high' iff p >= 30.
C1_PriceBoundaries ==
    (call.fn = "categorize_price" /\ call.arg.t = "num") =>
        /\ Label(call.out.val) \in {<<"f", "r", "e", "e">>, <<"l", "o", "w">>, <<"m", "e", "d", "i", "u", "m">>, <<"h", "i", "g", "h">>}
        /\ (Label(call.out.val) = <<"f", "r", "e", "e">>) <=> (call.arg.v = 0)
        /\ (Label(call.out.val) = <<"l", "o", "w">>)
               <=> (0 < call.arg.v /\ call.arg.v < 10 * PriceScale)
        /\ (Label(call.out.val) = <<"m", "e", "d", "i", "u", "m">>)
               <=> (10 * PriceScale <= call.arg.v /\ call.arg.v < 30 * PriceScale)
        /\ (Label(call.out.val) = <<"h", "i", "g", "h">>) <=> (call.arg.v >= 30 * PriceScale)

\* C2: the table clean_events returns, and the table engineer_features makes
\* of it, has one row per distinct id of the raw records, in input order, and
\* each row is the first record with its id (it holds that record's name).
C2_FirstRecordPerId ==
    stage \in {"cleaned", "engineered", "ordered"} =>
        /\ Len(df.rows) = Cardinality(FirstOccurrences)
        /\ \A k \in 1..Len(df.rows) :
               /\ df.rows[k]["id"] = events[NthFirst(k)]["id"]
               /\ df.rows[k]["name"] = events[NthFirst(k)]["name"]

\* two different records with one id were loaded and one row is left
C2_Witness ==
    /\ stage = "engineered"
    /\ Len(events) = 2
    /\ events[1] # events[2]
    /\ events[1]["id"] = events[2]["id"]
    /\ Len(df.rows) = 1

\* C3: clean_events applied to the table clean_events returned gives a table
\* with the same columns and the same rows.
C3_CleanIdempotent == stage = "recleaned" => df = dfClean

\* C4: in the table of engineer_features each of the nine tag flags of a row is
\* 1 iff the row's lowercased, trimmed tag tokens share an element with the
\* category's keyword list, else 0; a token 'techno' sets tag_music_event, the
\* tokens {'hiking'} set no flag.
C4_TagFlagsByTokenEquality ==
    stage \in {"engineered", "ordered"} =>
        \A k \in 1..Len(df.rows) :
            /\ \A c \in TagCategorySet :
                   df.rows[k][c] =
                       PyInt(IF TokenSet(NthFirst(k)) \cap Range(aggregation_map(c)) # {}
                             THEN 1 ELSE 0)
            /\ <<"t", "e", "c", "h", "n", "o">> \in TokenSet(NthFirst(k))
                   => df.rows[k]["tag_music_event"] = PyInt(1)
            /\ TokenSet(NthFirst(k)) = {<<"h", "i", "k", "i", "n", "g">>}
                   => \A c \in TagCategorySet : df.rows[k][c] = PyInt(0)

\* one row sets two flags, another row, tagged hiking, sets none
C4_Witness ==
    /\ stage = "engineered"
    /\ Len(df.rows) = 2
    /\ df.rows[1]["tag_music_event"] = PyInt(1)
    /\ df.rows[1]["tag_food_drink"] = PyInt(1)
    /\ TokenSet(NthFirst(2)) = {<<"h", "i", "k", "i", "n", "g">>}
    /\ \A c \in TagCategorySet : df.rows[2][c] = PyInt(0)

\* the single record of the end-to-end example
IsExample ==
    /\ Len(events) = 1
    /\ Field(events[1], "start_date") = Str(<<"2", "0", "2", "5", "-", "0", "3", "-", "0", "1">>)
    /\ Field(events[1], "start_time") = Str(<<"2", "0", ":", "0", "0", ":", "0", "0">>)
    /\ Field(events[1], PriceCol) = Str(<<"1", "5", ".", "0", "0">>)
    /\ Field(events[1], "tags") = List(<<Tag(Str(<<"L", "i", "v", "e", " ", "M", "u", "s", "i", "c">>))>>)
    /\ Field(events[1], AddrCol) = List(<<Str(<<"M", "a", "i", "n", " ", "S", "t">>), Str(<<"D", "u", "b", "l", "i", "n", " ", "6">>)>>)

\* what the example's Final row holds apart from its music flag
ExampleRow ==
    /\ Len(df.rows) = 1
    /\ df.rows[1]["event_weekday"] = Str(<<"S", "a", "t", "u", "r", "d", "a", "y">>)
    /\ df.rows[1]["price_category"] = Str(<<"m", "e", "d", "i", "u", "m">>)
    /\ df.rows[1]["dublin_postal_district"] = PyInt(6)
    /\ df.rows[1]["dublin_area_cluster"] = Str(<<"s", "o", "u", "t", "h", "_", "i", "n", "n", "e", "r">>)

\* C5 as stated: the end-to-end example yields one Final row with
\* event_weekday Saturday, price_category medium, tag_music_event 1,
\* dublin_postal_district 6 and dublin_area_cluster south_inner.
C5_ExampleAsStated ==
    (IsExample /\ stage = "ordered") =>
        (ExampleRow /\ df.rows[1]["tag_music_event"] = PyInt(1))

\* C5 amended: the end-to-end example yields one Final row with event_weekday
\* Saturday, price_category medium, dublin_postal_district 6 and
\* dublin_area_cluster south_inner, and tag_music_event 0: the token
\* 'live music' equals no keyword of the music list.
C5_ExampleAmended ==
    (IsExample /\ stage \in {"engineered", "ordered"}) =>
        (ExampleRow /\ df.rows[1]["tag_music_event"] = PyInt(0))

C5_Witness ==
    /\ IsExample
    /\ stage = "ordered"
    /\ df.rows[1]["tag_music_event"] = PyInt(0)
    /\ df.rows[1]["event_weekday"] = Str(<<"S", "a", "t", "u", "r", "d", "a", "y">>)

\* C6: on an empty list of records the normalizer, clean_events and
\* engineer_features raise nothing and the table they return, though empty,
\* has the columns of the schema.
C6_EmptyInputKeepsSchema ==
    (events = <<>> /\ stage # "idle" /\ stage # "loaded") =>
        /\ stage \notin {"clean_raised", "engineer_raised"}
        /\ stage = "cleaned" => SourceCols \subseteq df.cols
        /\ stage \in {"engineered", "ordered"} => "id" \in df.cols

\* C7: clean_events followed by engineer_features raises only when a required
\* column is absent from the raw table, never for the values records hold.
C7_RaisesOnlyForAbsentColumn ==
    stage \in {"clean_raised", "engineer_raised"} =>
        \E c \in RequiredRawColumns : \A i \in 1..Len(events) : c \notin DOMAIN events[i]

\* C8: no field extractor raises, whatever value it is given.
C8_ExtractorsTotal ==
    call.fn \in {"extract_from_locations", "parse_address", "extract_tags",
                 "extract_eircode", "extract_dublin_postal_district"}
        => call.out.exc = "none"

\* the list a value is or spells
ListOf(x) == IF x.t = "reprstr" THEN x.v ELSE x

\* C9: parse_address of a value that is, or spells, a list of two or more
\* elements returns (element 0, element 1, 'Dublin' if the text of element 1
\* has the word 'Dublin', else null); of any other value (null, null, null).
C9_ParseAddress ==
    call.fn = "parse_address" =>
        /\ call.out.exc = "none"
        /\ IF ListOf(call.arg).t = "list" /\ Len(ListOf(call.arg).v) >= 2
           THEN /\ call.out.val[1] = ListOf(call.arg).v[1]
                /\ call.out.val[2] = ListOf(call.arg).v[2]
                /\ call.out.val[3] =
                       (IF <<"D", "u", "b", "l", "i", "n">> \in Words(PyStr(ListOf(call.arg).v[2]))
                        THEN Str(<<"D", "u", "b", "l", "i", "n">>) ELSE PyNone)
           ELSE call.out.val = <<PyNone, PyNone, PyNone>>
        /\ call.arg = ReprStr(List(<<Str(<<"G", "r", "a", "f", "t", "o", "n", " ", "S", "t", "r", "e", "e", "t">>), Str(<<"D", "u", "b", "l", "i", "n", " ", "2">>)>>))
               => call.out.val = <<Str(<<"G", "r", "a", "f", "t", "o", "n", " ", "S", "t", "r", "e", "e", "t">>), Str(<<"D", "u", "b", "l", "i", "n", " ", "2">>), Str(<<"D", "u", "b", "l", "i", "n">>)>>
        /\ call.arg = ReprStr(List(<<>>)) => call.out.val = <<PyNone, PyNone, PyNone>>

\* the text of the test's first address was parsed
C9_Witness ==
    /\ call.fn = "parse_address"
    /\ call.arg = ReprStr(List(<<Str(<<"G", "r", "a", "f", "t", "o", "n", " ", "S", "t", "r", "e", "e", "t">>), Str(<<"D", "u", "b", "l", "i", "n", " ", "2">>)>>))
    /\ call.out.val[3] = Str(<<"D", "u", "b", "l", "i", "n">>)

\* C10: every row of the table of engineer_features, and of order_columns,
\* holds a number as price (0 where the price was missing), text as eircode,
\* eircode_routing_key and eircode_unique_id ('unknown' where the address has
\* no eircode), an integer as dublin_postal_district (-1 where the address
\* names no district) and text as tags_string.
C10_DefaultsNonNull ==
    stage \in {"engineered", "ordered"} =>
        /\ Len(df.rows) > 0 =>
               {"price", "eircode", "eircode_routing_key", "eircode_unique_id",
                "dublin_postal_district", "tags_string"} \subseteq df.cols
        /\ \A k \in 1..Len(df.rows) :
               /\ df.rows[k]["price"].t \in {"num", "int"}
               /\ IsNa(ToNumeric(Field(events[NthFirst(k)], PriceCol)))
                      => df.rows[k]["price"] = Num(0)
               /\ \A c \in {"eircode", "eircode_routing_key", "eircode_unique_id"} :
                      /\ df.rows[k][c].t = "str"
                      /\ extract_eircode(df.rows[k]["address_line2"]).val[1] = PyNone
                             => df.rows[k][c] = Str(<<"u", "n", "k", "n", "o", "w", "n">>)
               /\ df.rows[k]["dublin_postal_district"].t = "int"
               /\ extract_dublin_postal_district(df.rows[k]["address_line2"]).val = PyNone
                      => df.rows[k]["dublin_postal_district"] = PyInt(-1)
               /\ df.rows[k]["tags_string"].t = "str"

\* a row whose price, eircode and district were all missing
C10_Witness ==
    /\ stage = "ordered"
    /\ \E k \in 1..Len(df.rows) :
           /\ IsNa(ToNumeric(Field(events[NthFirst(k)], PriceCol)))
           /\ df.rows[k]["price"] = Num(0)
           /\ df.rows[k]["eircode_unique_id"] = Str(<<"u", "n", "k", "n", "o", "w", "n">>)
           /\ df.rows[k]["dublin_postal_district"] = PyInt(-1)

\* the district extract_dublin_postal_district finds in the address_line2 of
\* row k of the table
DistrictOfRow(k) == extract_dublin_postal_district(df.rows[k]["address_line2"]).val

\* C11: in the table of engineer_features the dublin_area_cluster of every row
\* follows from the district found in its address_line2: none -> 'unknown',
\* <= 2 -> 'city_centre', 4 or 6 -> 'south_inner', >= 7 -> 'outer_dublin',
\* 3 and 5 -> 'other'; a row without district is 'unknown' whatever the other
\* rows hold.
C11_ClusterByDistrict ==
    stage \in {"engineered", "ordered"} =>
        \A k \in 1..Len(df.rows) :
            df.rows[k]["dublin_area_cluster"] =
                (IF DistrictOfRow(k) = PyNone THEN Str(<<"u", "n", "k", "n", "o", "w", "n">>)
                 ELSE IF DistrictOfRow(k).v <= 2 THEN Str(<<"c", "i", "t", "y", "_", "c", "e", "n", "t", "r", "e">>)
                 ELSE IF DistrictOfRow(k).v \in {4, 6} THEN Str(<<"s", "o", "u", "t", "h", "_", "i", "n", "n", "e", "r">>)
                 ELSE IF DistrictOfRow(k).v >= 7 THEN Str(<<"o", "u", "t", "e", "r", "_", "d", "u", "b", "l", "i", "n">>)
                 ELSE Str(<<"o", "t", "h", "e", "r">>))

\* a part of an address that is text and not 'unknown'
KnownText(p) == p.t = "str" /\ p.v # <<"u", "n", "k", "n", "o", "w", "n">>

\* the texts of the known parts, joined by ", "
JoinedParts(parts) ==
    Str(StrJoin(<<",", " ">>, Tuple([i \in 1..Len(parts) |-> parts[i].v])))

\* C12: in the table of engineer_features the full_address of every row is the
\* ", "-joined sequence of those of street, address_line2, resolved city (the
\* city column) and eircode that are text and not 'unknown', so a known
\* resolved city appears in full_address.
C12_FullAddressHoldsCity ==
    stage \in {"engineered", "ordered"} =>
        \A k \in 1..Len(df.rows) :
            df.rows[k]["full_address"] =
                JoinedParts(SelectSeq(<<df.rows[k]["street"], df.rows[k]["address_line2"],
                                        df.rows[k]["city"], df.rows[k]["eircode"]>>,
                                      KnownText))

\* whether the price of the raw record behind row k reads as no number
RawPriceMissing(k) == IsNa(ToNumeric(Field(events[NthFirst(k)], PriceCol)))

\* C13: the table engineer_features and order_columns produce has a column
\* price_missing, 1 in the rows whose price was null before the fill with 0
\* and 0 in the others.
C13_PriceMissingSurvives ==
    (stage = "ordered" /\ Len(df.rows) > 0) =>
        /\ "price_missing" \in df.cols
        /\ \A k \in 1..Len(df.rows) :
               df.rows[k]["price_missing"] = PyInt(IF RawPriceMissing(k) THEN 1 ELSE 0)

\* the quotient of a by b > 0, truncated toward zero
TruncDiv(a, b) == IF a >= 0 THEN a \div b ELSE 0 - ((0 - a) \div b)

\* C14: days_published_before_event is the difference start_time - published
\* in whole days, truncated toward zero, also where published lies after
\* start_time.
C14_LeadDaysTruncate ==
    stage \in {"engineered", "ordered"} =>
        \A k \in 1..Len(df.rows) :
            (df.rows[k]["start_time"].t = "dt" /\ df.rows[k]["published"].t = "dt") =>
                df.rows[k]["days_published_before_event"] =
                    PyInt(TruncDiv(df.rows[k]["start_time"].v - df.rows[k]["published"].v,
                                   86400))

\* the number pd.to_numeric reads from the price of the raw record behind row k
RawPrice(k) == ToNumeric(Field(events[NthFirst(k)], PriceCol))

\* C15: in the table of engineer_features a row has price_category 'free' iff
\* its is_free is 1 iff its raw price reads as the number 0; a row whose raw
\* price is null or no number has price 0, is_free 0 and a price_category
\* other than 'free'.
C15_FreeFromRawPrice ==
    stage \in {"engineered", "ordered"} =>
        \A k \in 1..Len(df.rows) :
            /\ (df.rows[k]["price_category"] = Str(<<"f", "r", "e", "e">>))
                   <=> (df.rows[k]["is_free"] = PyInt(1))
            /\ (df.rows[k]["is_free"] = PyInt(1))
                   <=> (RawPrice(k).t = "num" /\ RawPrice(k).v = 0)
            /\ df.rows[k]["is_free"] \in {PyInt(0), PyInt(1)}
            /\ IsNa(RawPrice(k)) =>
                   /\ df.rows[k]["price"] = Num(0)
                   /\ df.rows[k]["is_free"] = PyInt(0)
                   /\ df.rows[k]["price_category"] # Str(<<"f", "r", "e", "e">>)

\* one row is free, another has an unreadable price filled with 0
C15_Witness ==
    /\ stage = "ordered"
    /\ \E k \in 1..Len(df.rows) :
           /\ RawPrice(k) = Num(0)
           /\ df.rows[k]["price_category"] = Str(<<"f", "r", "e", "e">>)
    /\ \E k \in 1..Len(df.rows) :
           /\ IsNa(RawPrice(k))
           /\ df.rows[k]["price"] = Num(0)
           /\ df.rows[k]["price_category"] = Str(<<"h", "i", "g", "h">>)

RECURSIVE ResultsOfOk(_)
\* the results of the answers with status 200 and a well-formed body, in the
\* order of the answers
ResultsOfOk(answers) ==
    IF answers = <<>> THEN <<>>
    ELSE (IF answers[1].kind = "ok" THEN answers[1].results ELSE <<>>)
             \o ResultsOfOk(Tail(answers))

\* C16: scrape_all posts the requests for pages 1, 2, ... in this order, one
\* request a page and none repeated, and a run that returns has requested
\* every page up to page_count.  A first page with a status other than 200
\* raises RuntimeError after that one request.  A later page with a status
\* other than 200 never ends the run: the run goes on to the next page or
\* returns.  The list returned, and then saved by main, is the concatenation
\* in page order of the results of the pages answered well-formed with
\* status 200, so a skipped page leaves it incomplete with no sign.
C16_PagesOnceFailuresSkipped ==
    /\ Len(scrape.answers) = Len(scrape.requested)
    /\ \A i \in 1..Len(scrape.requested) : scrape.requested[i] = i
    /\ scrape.pc \in {"returned", "saved"} =>
           /\ Len(scrape.requested) = scrape.total_pages
           /\ scrape.exc = "none"
           /\ scrape.all_events = ResultsOfOk(scrape.answers)
    /\ scrape.pc = "saved" => scrape.saved = scrape.all_events
    /\ (Len(scrape.answers) >= 1 /\ scrape.answers[1].status_code # 200) =>
           /\ scrape.pc = "raised"
           /\ scrape.exc \in {"RuntimeError", "Timeout"}
           /\ Len(scrape.requested) = 1
    /\ (Len(scrape.answers) >= 1 /\ scrape.answers[1].kind = "refused") =>
           scrape.exc = "RuntimeError"
    /\ \A i \in 2..Len(scrape.answers) :
           scrape.answers[i].kind = "refused" =>
               \/ scrape.pc \in {"looping", "returned", "saved"} /\ scrape.page > i
               \/ scrape.pc = "raised" /\ i < Len(scrape.answers)

\* a run of three pages whose second page was refused and whose third page
\* brought records: the saved list holds the first and third pages only
C16_Witness ==
    /\ scrape.pc = "saved"
    /\ scrape.requested = <<1, 2, 3>>
    /\ scrape.answers[1].results # <<>>
    /\ scrape.answers[2].kind = "refused"
    /\ scrape.answers[3].kind = "ok"
    /\ scrape.answers[3].results # <<>>
    /\ scrape.saved = scrape.answers[1].results \o scrape.answers[3].results

====
